---- MODULE Spec2Model ----
(***************************************************************************)
(* Model of the analysis engine of src/app.py (SEO content optimizer).     *)
(*                                                                         *)
(* A string is a sequence of Unicode code points (Python str), a token     *)
(* list is a sequence of strings.  The character universe of the model is  *)
(* ASCII plus the non-ASCII whitespace characters and the three "smart"    *)
(* quotes that normalize_text rewrites; lower() and \w are modelled on     *)
(* that universe.                                                          *)
(***************************************************************************)
EXTENDS Integers, Sequences, FiniteSets, TLC

VARIABLES
    pc,             \* position inside analyze()
    payload,        \* the request payload (a dict: field name -> value)
    raw_text,       \* analyze locals, in order of assignment
    target_keyword,
    related,
    meta_title,
    meta_desc,
    text,
    words,
    sentences,
    stats,
    readability,
    heading_counts,
    kw,
    kw_flags,
    suggestions,
    result

vars == <<pc, payload, raw_text, target_keyword, related, meta_title, meta_desc,
          text, words, sentences, stats, readability, heading_counts, kw, kw_flags,
          suggestions, result>>

(***************************************************************************)
(* Characters and character classes (Python str / re semantics).           *)
(***************************************************************************)
\* str.isspace(), which is also what re's \s matches on str patterns
IsSpace(c) ==
    c \in (9..13) \cup (28..32) \cup {133, 160, 5760} \cup (8192..8202)
          \cup {8232, 8233, 8239, 8287, 12288}

IsDigit(c) == c \in 48..57
IsUpper(c) == c \in 65..90
IsLower(c) == c \in 97..122
IsAlpha(c) == IsUpper(c) \/ IsLower(c)

\* one character of WORD_RE = [A-Za-z0-9']
IsWordReChar(c) == IsAlpha(c) \/ IsDigit(c) \/ c = 39

\* re's \w on the model's character universe: alphanumeric or underscore
IsW(c) == IsAlpha(c) \/ IsDigit(c) \/ c = 95

\* str.lower(), character by character
LowerChar(c) == IF IsUpper(c) THEN c + 32 ELSE c

lower(s) == [i \in 1..Len(s) |-> LowerChar(s[i])]

Max(a, b) == IF a >= b THEN a ELSE b

\* s[i:j] of Python on 1-based inclusive bounds; empty when i > j
Slice(s, i, j) == IF i > j THEN <<>> ELSE SubSeq(s, i, j)

\* str.strip(): drop leading and trailing whitespace
strip(s) ==
    LET keep == {i \in 1..Len(s) : ~IsSpace(s[i])}
    IN  IF keep = {} THEN <<>>
        ELSE LET lo == CHOOSE i \in keep : \A j \in keep : i <= j
                 hi == CHOOSE i \in keep : \A j \in keep : j <= i
             IN  SubSeq(s, lo, hi)

\* s occurs in t as a contiguous substring (Python's `s in t`)
Contains(t, s) ==
    \E i \in 1..(Len(t) - Len(s) + 1) : SubSeq(t, i, i + Len(s) - 1) = s

(***************************************************************************)
(* normalize_text                                                          *)
(***************************************************************************)
\* the three str.replace calls of line 26
ReplaceQuotes(s) ==
    [i \in 1..Len(s) |->
        IF s[i] = 8217 THEN 39
        ELSE IF s[i] \in {8220, 8221} THEN 34
        ELSE s[i]]

\* a position that a rewrite drops is marked -1 (no code point is negative)
NotDropped(c) == c >= 0

\* re.sub(r"\s+", " ", s): every maximal run of whitespace becomes one space
\* (its first character is rewritten, the rest of the run is dropped)
CollapseWhitespace(s) ==
    SelectSeq([i \in 1..Len(s) |->
                  IF ~IsSpace(s[i]) THEN s[i]
                  ELSE IF i > 1 /\ IsSpace(s[i - 1]) THEN -1
                  ELSE 32],
              NotDropped)

\* normalize_text without the final .strip()
NormalizeWithoutStrip(s) == CollapseWhitespace(ReplaceQuotes(s))

normalize_text(s) == strip(CollapseWhitespace(ReplaceQuotes(s)))

(***************************************************************************)
(* tokenize_words, split_sentences                                         *)
(***************************************************************************)
\* last index of the maximal run of WORD_RE characters that starts at i
WordRunEnd(s, i) ==
    CHOOSE j \in i..Len(s) :
        /\ \A k \in i..j : IsWordReChar(s[k])
        /\ (j = Len(s) \/ ~IsWordReChar(s[j + 1]))

\* first index >= i of s that holds a WORD_RE character, or 0
NextWordStart(s, i) ==
    IF \A k \in i..Len(s) : ~IsWordReChar(s[k]) THEN 0
    ELSE CHOOSE k \in i..Len(s) :
            IsWordReChar(s[k]) /\ \A j \in i..(k - 1) : ~IsWordReChar(s[j])

\* WORD_RE.findall(text) from index i on, each match lowercased
RECURSIVE TokensFrom(_, _)
TokensFrom(s, i) ==
    LET st == NextWordStart(s, i)
    IN  IF st = 0 THEN <<>>
        ELSE LET j == WordRunEnd(s, st)
             IN  <<lower(SubSeq(s, st, j))>> \o TokensFrom(s, j + 1)

tokenize_words(s) == TokensFrom(s, 1)

\* one character of the class [.!?]
IsTerminator(c) == c \in {46, 33, 63}

\* last index of the maximal run of [.!?] that starts at i
TerminatorRunEnd(s, i) ==
    CHOOSE j \in i..Len(s) :
        /\ \A k \in i..j : IsTerminator(s[k])
        /\ (j = Len(s) \/ ~IsTerminator(s[j + 1]))

\* re.split(r"[.!?]+(?:\s|$)", t): st is where the current piece starts, i the
\* scan position.  A run of terminators matches only when whitespace or the end
\* of the string follows the whole run; the match takes that one whitespace
\* character too, and a match at the end leaves a last, empty piece.
RECURSIVE SplitFrom(_, _, _)
SplitFrom(t, st, i) ==
    IF \A k \in i..Len(t) : ~IsTerminator(t[k]) THEN <<Slice(t, st, Len(t))>>
    ELSE LET b == CHOOSE k \in i..Len(t) :
                     IsTerminator(t[k]) /\ \A j \in i..(k - 1) : ~IsTerminator(t[j])
             e == TerminatorRunEnd(t, b)
         IN  IF e = Len(t) THEN <<Slice(t, st, b - 1), <<>>>>
             ELSE IF IsSpace(t[e + 1])
                  THEN <<Slice(t, st, b - 1)>> \o SplitFrom(t, e + 2, e + 2)
                  ELSE SplitFrom(t, st, e + 1)

NonEmpty(p) == p # <<>>

\* [p.strip() for p in parts if p.strip()]
StripNonEmpty(parts) ==
    SelectSeq([i \in 1..Len(parts) |-> strip(parts[i])], NonEmpty)

split_sentences(s) == StripNonEmpty(SplitFrom(strip(s), 1, 1))

(***************************************************************************)
(* count_syllables, flesch_reading_ease, score_band                        *)
(***************************************************************************)
IsVowel(c) == c \in {97, 101, 105, 111, 117, 121}

\* re.sub(r"[^a-z]", "", word.lower())
OnlyLetters(word) == SelectSeq(lower(word), IsLower)

\* the loop of lines 51-55: one syllable per vowel that follows a non-vowel
VowelGroups(w) ==
    Cardinality({i \in 1..Len(w) :
                    IsVowel(w[i]) /\ (i = 1 \/ ~IsVowel(w[i - 1]))})

EndsWith(w, suffix) ==
    /\ Len(w) >= Len(suffix)
    /\ SubSeq(w, Len(w) - Len(suffix) + 1, Len(w)) = suffix

count_syllables(word) ==
    LET w == OnlyLetters(word)
        n == VowelGroups(w)
    IN  IF w = <<>> THEN 0
        ELSE IF /\ EndsWith(w, <<101>>)
                /\ n > 1
                /\ ~EndsWith(w, <<108, 101>>)
                /\ ~EndsWith(w, <<121, 101>>)
             THEN Max(1, n - 1)
             ELSE Max(1, n)

RECURSIVE SumSyllables(_)
SumSyllables(ws) ==
    IF ws = <<>> THEN 0 ELSE count_syllables(Head(ws)) + SumSyllables(Tail(ws))

\* round(n/d, k) as an integer count of 10^-k units, n/d already in those
\* units and d > 0.  Python rounds the binary double, which on an exact decimal
\* tie lies on either side of it: `up` is the side it lies on.
RoundDiv(n, d, up) ==
    LET q == n \div d
        r == n % d
    IN  IF 2 * r < d THEN q
        ELSE IF 2 * r > d THEN q + 1
        ELSE IF up THEN q + 1 ELSE q

\* the score in tenths: 206.835 - 1.015 * (W/S) - 84.6 * (Syl/W), rounded to
\* one decimal; 0 when there are no words or no sentences
flesch_reading_ease(ws, sents, up) ==
    IF ws = <<>> \/ sents = <<>> THEN 0
    ELSE LET W   == Len(ws)
             S   == Len(sents)
             Syl == SumSyllables(ws)
         IN  RoundDiv(206835 * S * W - 1015 * W * W - 84600 * Syl * S,
                      100 * S * W, up)

\* flesch is in tenths
score_band(flesch) ==
    IF flesch >= 900 THEN "Very easy"
    ELSE IF flesch >= 800 THEN "Easy"
    ELSE IF flesch >= 700 THEN "Fairly easy"
    ELSE IF flesch >= 600 THEN "Standard"
    ELSE IF flesch >= 500 THEN "Fairly difficult"
    ELSE IF flesch >= 300 THEN "Difficult"
    ELSE "Very difficult"

(***************************************************************************)
(* extract_headings                                                        *)
(***************************************************************************)
\* the line boundaries of str.splitlines()
IsLineBreak(c) == c \in (10..13) \cup (28..30) \cup {133, 8232, 8233}

\* text.splitlines(): st is where the current line starts, i the scan
\* position; "\r\n" is one boundary and no empty last line is produced
RECURSIVE LinesFrom(_, _)
LinesFrom(s, st) ==
    IF st > Len(s) THEN <<>>
    ELSE IF \A k \in st..Len(s) : ~IsLineBreak(s[k]) THEN <<Slice(s, st, Len(s))>>
    ELSE LET b == CHOOSE k \in st..Len(s) :
                     IsLineBreak(s[k]) /\ \A j \in st..(k - 1) : ~IsLineBreak(s[j])
             nxt == IF s[b] = 13 /\ b < Len(s) /\ s[b + 1] = 10
                    THEN b + 2 ELSE b + 1
         IN  <<Slice(s, st, b - 1)>> \o LinesFrom(s, nxt)

splitlines(s) == LinesFrom(s, 1)

\* first index >= i of s that is not whitespace (Len(s) + 1 when there is none)
SkipSpace(s, i) ==
    IF \A k \in i..Len(s) : IsSpace(s[k]) THEN Max(i, Len(s) + 1)
    ELSE CHOOSE k \in i..Len(s) :
            ~IsSpace(s[k]) /\ \A j \in i..(k - 1) : IsSpace(s[j])

\* first index >= i of s that is not '#' (Len(s) + 1 when there is none)
SkipHash(s, i) ==
    IF \A k \in i..Len(s) : s[k] = 35 THEN Max(i, Len(s) + 1)
    ELSE CHOOSE k \in i..Len(s) :
            s[k] # 35 /\ \A j \in i..(k - 1) : s[j] = 35

\* re.match(r"^\s*(#{1,6})\s+\S+", line): len(m.group(1)), or 0 for no match.
\* The '#' run must be whole (what follows #{1,6} has to be whitespace), so a
\* run of more than six never matches.
HeadingLevel(line) ==
    LET k == SkipSpace(line, 1)
        e == SkipHash(line, k)
        a == SkipSpace(line, e)
    IN  IF e - k >= 1 /\ e - k <= 6 /\ a > e /\ a <= Len(line)
        THEN e - k ELSE 0

\* md_counts[f"h{level}"] after the loop of lines 103-107
MdCount(lines, level) ==
    Cardinality({n \in 1..Len(lines) : HeadingLevel(lines[n]) = level})

\* the pattern without its \b: "<h1" is also found inside "<h10"
HtmlTagAtNoBoundary(s, level, i) ==
    /\ i + 2 <= Len(s)
    /\ s[i] = 60
    /\ LowerChar(s[i + 1]) = 104
    /\ s[i + 2] = 48 + level

\* the pattern <h{level}\b matches at i, ignoring case
HtmlTagAt(s, level, i) ==
    /\ i + 2 <= Len(s)
    /\ s[i] = 60
    /\ LowerChar(s[i + 1]) = 104
    /\ s[i + 2] = 48 + level
    /\ (i + 3 > Len(s) \/ ~IsW(s[i + 3]))

\* len(re.findall(fr"<h{level}\b", text, flags=re.IGNORECASE)), scanning from i
RECURSIVE HtmlCountFrom(_, _, _)
HtmlCountFrom(s, level, i) ==
    IF \A k \in i..Len(s) : ~HtmlTagAt(s, level, k) THEN 0
    ELSE LET m == CHOOSE k \in i..Len(s) :
                     HtmlTagAt(s, level, k)
                     /\ \A j \in i..(k - 1) : ~HtmlTagAt(s, level, j)
         IN  1 + HtmlCountFrom(s, level, m + 3)

HeadingKeys == <<"h1", "h2", "h3", "h4", "h5", "h6">>

extract_headings(s) ==
    LET lines == splitlines(s)
    IN  [k \in {HeadingKeys[l] : l \in 1..6} |->
            LET level == CHOOSE l \in 1..6 : HeadingKeys[l] = k
            IN  MdCount(lines, level) + HtmlCountFrom(s, level, 1)]

(***************************************************************************)
(* keyword_metrics                                                         *)
(***************************************************************************)
\* s.split(sep) for a one-character separator: st is where the piece starts
RECURSIVE SplitOnFrom(_, _, _)
SplitOnFrom(s, sep, st) ==
    IF \A k \in st..Len(s) : s[k] # sep THEN <<Slice(s, st, Len(s))>>
    ELSE LET b == CHOOSE k \in st..Len(s) :
                     s[k] = sep /\ \A j \in st..(k - 1) : s[j] # sep
         IN  <<Slice(s, st, b - 1)>> \o SplitOnFrom(s, sep, b + 1)

\* [r.strip().lower() for r in related.split(",") if r.strip()]
StripLowerNonEmpty(parts) ==
    SelectSeq([i \in 1..Len(parts) |-> lower(strip(parts[i]))], NonEmpty)

RelatedList(rel) == StripLowerNonEmpty(SplitOnFrom(rel, 44, 1))

\* " ".join(words)
RECURSIVE Join(_)
Join(ws) ==
    IF ws = <<>> THEN <<>>
    ELSE IF Len(ws) = 1 THEN Head(ws)
    ELSE Head(ws) \o <<32>> \o Join(Tail(ws))

\* \b at the gap before index p of s (p in 1..Len(s)+1): exactly one side is \w
WordBoundary(s, p) ==
    LET left  == p > 1 /\ IsW(s[p - 1])
        right == p <= Len(s) /\ IsW(s[p])
    IN  left # right

\* \b<target>\b matches s at i, ignoring case
PhraseAt(s, t, i) ==
    /\ i + Len(t) - 1 <= Len(s)
    /\ lower(SubSeq(s, i, i + Len(t) - 1)) = lower(t)
    /\ WordBoundary(s, i)
    /\ WordBoundary(s, i + Len(t))

\* len(re.findall(rf"\b{re.escape(t)}\b", s, flags=re.IGNORECASE)) from i on,
\* t nonempty: matches do not overlap
RECURSIVE PhraseCountFrom(_, _, _)
PhraseCountFrom(s, t, i) ==
    IF \A k \in i..Len(s) : ~PhraseAt(s, t, k) THEN 0
    ELSE LET m == CHOOSE k \in i..Len(s) :
                     PhraseAt(s, t, k) /\ \A j \in i..(k - 1) : ~PhraseAt(s, t, j)
         IN  1 + PhraseCountFrom(s, t, m + Len(t))

\* counter[w] += 1 on the items <<key, count>> of a Counter, which keeps its
\* keys in insertion order
CounterAdd(items, w) ==
    IF \E i \in 1..Len(items) : items[i][1] = w
    THEN [i \in 1..Len(items) |->
             IF items[i][1] = w THEN <<w, items[i][2] + 1>> ELSE items[i]]
    ELSE Append(items, <<w, 1>>)

\* list(Counter(ws[1..n]).items())
RECURSIVE CounterItems(_, _)
CounterItems(ws, n) ==
    IF n = 0 THEN <<>> ELSE CounterAdd(CounterItems(ws, n - 1), ws[n])

\* freq = Counter(words), as its items
FreqItems(ws) == CounterItems(ws, Len(ws))

\* a lookup that sums the counts of every key that contains w
FreqGetContaining(items, w) ==
    LET hits == {i \in 1..Len(items) : Contains(items[i][1], w)}
        RECURSIVE Sum(_)
        Sum(S) == IF S = {} THEN 0
                  ELSE LET x == CHOOSE y \in S : TRUE
                       IN  items[x][2] + Sum(S \ {x})
    IN  Sum(hits)

\* freq.get(w, 0)
FreqGet(items, w) ==
    IF \E i \in 1..Len(items) : items[i][1] = w
    THEN items[CHOOSE i \in 1..Len(items) : items[i][1] = w][2]
    ELSE 0

\* the insertion of an unstable sort: item goes before entries of equal count
RECURSIVE InsertBeforeEqual(_, _)
InsertBeforeEqual(sorted, item) ==
    IF sorted = <<>> THEN <<item>>
    ELSE IF Head(sorted)[2] > item[2]
         THEN <<Head(sorted)>> \o InsertBeforeEqual(Tail(sorted), item)
         ELSE <<item>> \o sorted

\* put item into a list sorted by count, descending, behind every entry whose
\* count is at least as large (equal counts keep their order)
RECURSIVE InsertByCount(_, _)
InsertByCount(sorted, item) ==
    IF sorted = <<>> THEN <<item>>
    ELSE IF Head(sorted)[2] >= item[2]
         THEN <<Head(sorted)>> \o InsertByCount(Tail(sorted), item)
         ELSE <<item>> \o sorted

RECURSIVE SortByCount(_, _)
SortByCount(items, acc) ==
    IF items = <<>> THEN acc
    ELSE SortByCount(Tail(items), InsertByCount(acc, Head(items)))

FirstN(s, n) == IF Len(s) <= n THEN s ELSE SubSeq(s, 1, n)

\* Counter(words).most_common(n): by count, descending, ties in insertion order
most_common(ws, n) == FirstN(SortByCount(FreqItems(ws), <<>>), n)

\* w.isdigit() on the model's characters
isdigit(w) == w # <<>> /\ \A i \in 1..Len(w) : IsDigit(w[i])

\* len(w) > 2 and not w.isdigit()
KeepTerm(item) == Len(item[1]) > 2 /\ ~isdigit(item[1])

\* lines 144-147 and 155
TopTerms(ws) == FirstN(SelectSeq(most_common(ws, 25), KeepTerm), 15)

Range(f) == {f[i] : i \in DOMAIN f}

\* lines 129-135
TargetPhraseCount(ws, target_clean) ==
    IF target_clean = <<>> THEN 0
    ELSE PhraseCountFrom(Join(ws), target_clean, 1)

\* kw of keyword_metrics; target_density_percent is in hundredths of a percent
KeywordRecord(ws, target, rel, up) ==
    LET target_clean == lower(strip(target))
        related_list == RelatedList(rel)
        count        == TargetPhraseCount(ws, target_clean)
    IN  [target_keyword         |-> target_clean,
         target_count           |-> count,
         target_density_percent |->
             IF Len(ws) > 0 THEN RoundDiv(count * 10000, Len(ws), up) ELSE 0,
         related_keywords       |-> related_list,
         related_counts         |-> [r \in Range(related_list) |->
                                        FreqGet(FreqItems(ws), r)],
         top_terms              |-> TopTerms(ws)]

\* the flags with density_low computed only inside `if total_words > 0`
KeywordFlagsLowNeedsWords(ws, target) ==
    LET target_clean == lower(strip(target))
        count        == TargetPhraseCount(ws, target_clean)
        total        == Len(ws)
    IN  [has_target   |-> target_clean # <<>> /\ count > 0,
         density_low  |-> target_clean # <<>> /\ total > 0 /\ count * 200 < total,
         density_high |-> target_clean # <<>> /\ total > 0 /\ count * 100 > 3 * total]

\* flags of keyword_metrics; density is compared before it is rounded:
\* count / total * 100 < 0.5 and > 3.0
KeywordFlags(ws, target) ==
    LET target_clean == lower(strip(target))
        count        == TargetPhraseCount(ws, target_clean)
        total        == Len(ws)
    IN  [has_target   |-> target_clean # <<>> /\ count > 0,
         density_low  |-> target_clean # <<>>
                          /\ (IF total > 0 THEN count * 200 < total ELSE TRUE),
         density_high |-> target_clean # <<>>
                          /\ (IF total > 0 THEN count * 100 > 3 * total ELSE FALSE)]

keyword_metrics(ws, target, rel, up) ==
    <<KeywordRecord(ws, target, rel, up), KeywordFlags(ws, target)>>

(***************************************************************************)
(* make_suggestions                                                        *)
(***************************************************************************)
MsgAddDepth == "Add more depth. Aim for at least 300 to 800 words for most posts."
MsgTrim == "Consider trimming or adding subheadings. Very long posts need strong structure."
MsgShortenSentences == "Shorten sentences. Average sentence length is a bit high."
MsgAddH1 == "Add one clear H1 title (or a top-level heading) to define the page topic."
MsgOneH1 == "Use only one H1. Convert extra H1s into H2s."
MsgAddH2 == "Add H2 subheadings to break up sections and improve scan-ability."
MsgAddH3 == "Add some H3 subheadings for details inside each section."
MsgIncludeTarget == "Include your target keyword at least once, ideally in the first 100 words."
MsgDensityLow == "Target keyword density looks low. Add it naturally 1 to 3 times."
MsgDensityHigh == "Target keyword density looks high. Reduce repetition and use synonyms."
MsgAddTarget == "Add a target keyword to get keyword density and placement feedback."
MsgAddTitle == "Add a meta title. Keep it clear and specific."
MsgTitleShort == "Meta title may be short. Many titles perform well around 45 to 60 characters."
MsgTitleLong == "Meta title may be long. Consider shortening to about 60 characters."
MsgTitleKeyword == "Try including the target keyword in the meta title, if it fits naturally."
MsgAddDesc == "Add a meta description. Summarize the value in 1 to 2 sentences."
MsgDescShort == "Meta description may be short. Many descriptions perform well around 120 to 160 characters."
MsgDescLong == "Meta description may be long. Consider trimming to about 160 characters."
MsgDescKeyword == "Try including the target keyword in the meta description, if it fits naturally."
\* the source writes "it's" with U+2019
MsgLongParagraphs == "Break up long paragraphs. Aim for tighter blocks so it's easier to read."

\* index of the last "\n" among s[i..e-1], or 0
LastNewlineIn(s, i, e) ==
    LET nl == {m \in i..(e - 1) : s[m] = 10}
    IN  IF nl = {} THEN 0 ELSE CHOOSE m \in nl : \A x \in nl : x <= m

\* re.split(r"\n\s*\n", s): a "\n", then whitespace up to the last "\n" of the
\* whitespace run that follows it
\* the pattern \n\s*\n matches s at i
BreakAt(s, i) == s[i] = 10 /\ LastNewlineIn(s, i + 1, SkipSpace(s, i + 1)) # 0

RECURSIVE ParagraphsFrom(_, _)
ParagraphsFrom(s, st) ==
    IF \A k \in st..Len(s) : ~BreakAt(s, k) THEN <<Slice(s, st, Len(s))>>
    ELSE LET b == CHOOSE k \in st..Len(s) :
                     BreakAt(s, k) /\ \A j \in st..(k - 1) : ~BreakAt(s, j)
             m == LastNewlineIn(s, b + 1, SkipSpace(s, b + 1))
         IN  <<Slice(s, st, b - 1)>> \o ParagraphsFrom(s, m + 1)

\* [p.strip() for p in re.split(r"\n\s*\n", text) if p.strip()]
Paragraphs(s) == StripNonEmpty(ParagraphsFrom(s, 1))

\* len(p.split()): the whitespace-delimited words of p
SplitWordCount(p) ==
    Cardinality({i \in 1..Len(p) : ~IsSpace(p[i]) /\ (i = 1 \/ IsSpace(p[i - 1]))})

\* bool(long_paras)
HasLongParagraph(s) ==
    LET paras == Paragraphs(s)
    IN  \E i \in 1..Len(paras) : SplitWordCount(paras[i]) > 110

When(cond, msg) == IF cond THEN <<msg>> ELSE <<>>

\* lines 181-184
WordCountRule(word_count) ==
    IF word_count < 300 THEN <<MsgAddDepth>>
    ELSE IF word_count > 2000 THEN <<MsgTrim>>
    ELSE <<>>

\* lines 186-189: word_count / sentence_count > 22
SentenceRule(word_count, sentence_count) ==
    When(sentence_count > 0 /\ word_count > 22 * sentence_count,
         MsgShortenSentences)

\* lines 192-200
HeadingRules(headings, word_count) ==
    (IF headings["h1"] = 0 THEN <<MsgAddH1>>
     ELSE IF headings["h1"] > 1 THEN <<MsgOneH1>>
     ELSE <<>>)
    \o When(headings["h2"] = 0, MsgAddH2)
    \o When(headings["h3"] = 0 /\ word_count >= 700, MsgAddH3)

\* lines 203-212
KeywordRules(target, flags) ==
    IF target # <<>>
    THEN When(~flags.has_target, MsgIncludeTarget)
         \o When(flags.density_low, MsgDensityLow)
         \o When(flags.density_high, MsgDensityHigh)
    ELSE <<MsgAddTarget>>

\* the long-title check off by one: len(mt) >= 65
TitleRulesLongFrom65(mt, target) ==
    IF mt = <<>> THEN <<MsgAddTitle>>
    ELSE When(Len(mt) < 35, MsgTitleShort)
         \o When(Len(mt) >= 65, MsgTitleLong)
         \o When(target # <<>> /\ ~Contains(lower(mt), target), MsgTitleKeyword)

\* the keyword check moved out of the else branch: it also runs on an empty title
TitleRulesKeywordAlways(mt, target) ==
    (IF mt = <<>> THEN <<MsgAddTitle>>
     ELSE When(Len(mt) < 35, MsgTitleShort) \o When(Len(mt) > 65, MsgTitleLong))
    \o When(target # <<>> /\ ~Contains(lower(mt), target), MsgTitleKeyword)

\* lines 218-227, mt already stripped
TitleRules(mt, target) ==
    IF mt = <<>> THEN <<MsgAddTitle>>
    ELSE When(Len(mt) < 35, MsgTitleShort)
         \o When(Len(mt) > 65, MsgTitleLong)
         \o When(target # <<>> /\ ~Contains(lower(mt), target), MsgTitleKeyword)

\* lines 229-238, md already stripped
DescriptionRules(md, target) ==
    IF md = <<>> THEN <<MsgAddDesc>>
    ELSE When(Len(md) < 90, MsgDescShort)
         \o When(Len(md) > 170, MsgDescLong)
         \o When(target # <<>> /\ ~Contains(lower(md), target), MsgDescKeyword)

\* lines 241-244
ParagraphRule(s) == When(HasLongParagraph(s), MsgLongParagraphs)

\* the meta description block written before the meta title block
SuggestionsDescriptionFirst(s, ws, sents, headings, kwd, flags, mtitle, mdesc) ==
    LET word_count     == Len(ws)
        sentence_count == Len(sents)
        target         == kwd.target_keyword
    IN  WordCountRule(word_count)
        \o SentenceRule(word_count, sentence_count)
        \o HeadingRules(headings, word_count)
        \o KeywordRules(target, flags)
        \o DescriptionRules(strip(mdesc), target)
        \o TitleRules(strip(mtitle), target)
        \o ParagraphRule(s)

make_suggestions(s, ws, sents, headings, kwd, flags, mtitle, mdesc) ==
    LET word_count     == Len(ws)
        sentence_count == Len(sents)
        target         == kwd.target_keyword
    IN  WordCountRule(word_count)
        \o SentenceRule(word_count, sentence_count)
        \o HeadingRules(headings, word_count)
        \o KeywordRules(target, flags)
        \o TitleRules(strip(mtitle), target)
        \o DescriptionRules(strip(mdesc), target)
        \o ParagraphRule(s)

(***************************************************************************)
(* analyze                                                                 *)
(***************************************************************************)
\* Python values a payload field can hold: a str, None, an int
PyStr(s) == [kind |-> "str", s |-> s, n |-> 0]
PyNone == [kind |-> "null", s |-> <<>>, n |-> 0]
PyInt(n) == [kind |-> "int", s |-> <<>>, n |-> n]

\* bool(v)
Truthy(v) ==
    CASE v.kind = "str" -> v.s # <<>>
      [] v.kind = "int" -> v.n # 0
      [] OTHER -> FALSE

\* payload.get(key, ""), the `or ""` forgotten: a null stays a null
GetWithoutOr(p, key) == IF key \in DOMAIN p THEN p[key] ELSE PyStr(<<>>)

\* payload.get(key, "") or ""
GetOrEmpty(p, key) ==
    LET v == IF key \in DOMAIN p THEN p[key] ELSE PyStr(<<>>)
    IN  IF Truthy(v) THEN v ELSE PyStr(<<>>)

\* len([p for p in re.split(r"\n\s*\n", raw_text) if p.strip()])
ParagraphCount(s) == Len(Paragraphs(s))

\* lines 261-264
Stats(raw, txt, ws, sents) ==
    [word_count      |-> Len(ws),
     character_count |-> Len(txt),
     sentence_count  |-> Len(sents),
     paragraph_count |-> ParagraphCount(raw)]

\* lines 266-274; avg_words_per_sentence in hundredths, the score in tenths
Readability(ws, sents, upAvg, upScore) ==
    LET flesch == flesch_reading_ease(ws, sents, upScore)
    IN  [flesch_reading_ease    |-> flesch,
         level                  |-> score_band(flesch),
         avg_words_per_sentence |->
             RoundDiv(Len(ws) * 100, Max(1, Len(sents)), upAvg)]

\* the AnalysisResult of lines 287-298
AnalysisResult(st, kwd, headings, rd, sugg) ==
    [stats |-> st, keywords |-> kwd, headings |-> headings,
     readability |-> rd, suggestions |-> sugg]

\* analyze() on five strings, as one function; the three booleans are the
\* sides the three rounded doubles fall to on a decimal tie
analyze(content, target, rel, mtitle, mdesc, upAvg, upScore, upDensity) ==
    LET txt      == normalize_text(content)
        ws       == tokenize_words(txt)
        sents    == split_sentences(txt)
        headings == extract_headings(content)
        km       == keyword_metrics(ws, target, rel, upDensity)
    IN  AnalysisResult(Stats(content, txt, ws, sents), km[1], headings,
                       Readability(ws, sents, upAvg, upScore),
                       make_suggestions(content, ws, sents, headings,
                                        km[1], km[2], mtitle, mdesc))

\* a local that is not assigned yet
Unset == <<>>

\* a rounding side is a choice only on a decimal tie of n/d
Sides(n, d) == IF (2 * n) % d = 0 /\ n % d # 0 THEN BOOLEAN ELSE {FALSE}

\* lines 250-254
ReadPayload ==
    /\ pc = "start"
    /\ raw_text' = GetOrEmpty(payload, "content")
    /\ target_keyword' = GetOrEmpty(payload, "target_keyword")
    /\ related' = GetOrEmpty(payload, "related_keywords")
    /\ meta_title' = GetOrEmpty(payload, "meta_title")
    /\ meta_desc' = GetOrEmpty(payload, "meta_description")
    /\ pc' = "read"
    /\ UNCHANGED <<payload, text, words, sentences, stats, readability,
                   heading_counts, kw, kw_flags, suggestions, result>>

\* line 256; s.replace raises on a value that is no str
NormalizeText ==
    /\ pc = "read"
    /\ IF raw_text.kind = "str"
       THEN text' = normalize_text(raw_text.s) /\ pc' = "normalized"
       ELSE text' = text /\ pc' = "raised"
    /\ UNCHANGED <<payload, raw_text, target_keyword, related, meta_title,
                   meta_desc, words, sentences, stats, readability,
                   heading_counts, kw, kw_flags, suggestions, result>>

\* line 257
TokenizeWords ==
    /\ pc = "normalized"
    /\ words' = tokenize_words(text)
    /\ pc' = "tokenized"
    /\ UNCHANGED <<payload, raw_text, target_keyword, related, meta_title,
                   meta_desc, text, sentences, stats, readability,
                   heading_counts, kw, kw_flags, suggestions, result>>

\* line 258
SplitSentences ==
    /\ pc = "tokenized"
    /\ sentences' = split_sentences(text)
    /\ pc' = "split"
    /\ UNCHANGED <<payload, raw_text, target_keyword, related, meta_title,
                   meta_desc, text, words, stats, readability,
                   heading_counts, kw, kw_flags, suggestions, result>>

\* lines 261-274
ComputeReadability ==
    /\ pc = "split"
    /\ stats' = Stats(raw_text.s, text, words, sentences)
    /\ \E upAvg \in Sides(Len(words) * 100, Max(1, Len(sentences))) :
       \E upScore \in
            (IF words = <<>> \/ sentences = <<>> THEN {FALSE}
             ELSE Sides(206835 * Len(sentences) * Len(words)
                          - 1015 * Len(words) * Len(words)
                          - 84600 * SumSyllables(words) * Len(sentences),
                        100 * Len(sentences) * Len(words))) :
          readability' = Readability(words, sentences, upAvg, upScore)
    /\ pc' = "scored"
    /\ UNCHANGED <<payload, raw_text, target_keyword, related, meta_title,
                   meta_desc, text, words, sentences, heading_counts, kw,
                   kw_flags, suggestions, result>>

\* line 277
ExtractHeadings ==
    /\ pc = "scored"
    /\ heading_counts' = extract_headings(raw_text.s)
    /\ pc' = "headings"
    /\ UNCHANGED <<payload, raw_text, target_keyword, related, meta_title,
                   meta_desc, text, words, sentences, stats, readability,
                   kw, kw_flags, suggestions, result>>

\* line 280; target.strip() and related.split raise on a value that is no str
KeywordMetrics ==
    /\ pc = "headings"
    /\ IF target_keyword.kind = "str" /\ related.kind = "str"
       THEN /\ \E up \in Sides(TargetPhraseCount(words, lower(strip(target_keyword.s)))
                                 * 10000, Max(1, Len(words))) :
                 LET km == keyword_metrics(words, target_keyword.s, related.s, up)
                 IN  kw' = km[1] /\ kw_flags' = km[2]
            /\ pc' = "keywords"
       ELSE UNCHANGED <<kw, kw_flags>> /\ pc' = "raised"
    /\ UNCHANGED <<payload, raw_text, target_keyword, related, meta_title,
                   meta_desc, text, words, sentences, stats, readability,
                   heading_counts, suggestions, result>>

\* lines 283-285; meta_title.strip() raises on a value that is no str
MakeSuggestions ==
    /\ pc = "keywords"
    /\ IF meta_title.kind = "str" /\ meta_desc.kind = "str"
       THEN /\ suggestions' = make_suggestions(raw_text.s, words, sentences,
                                               heading_counts, kw, kw_flags,
                                               meta_title.s, meta_desc.s)
            /\ pc' = "suggested"
       ELSE UNCHANGED suggestions /\ pc' = "raised"
    /\ UNCHANGED <<payload, raw_text, target_keyword, related, meta_title,
                   meta_desc, text, words, sentences, stats, readability,
                   heading_counts, kw, kw_flags, result>>

\* lines 287-298
Return ==
    /\ pc = "suggested"
    /\ result' = AnalysisResult(stats, kw, heading_counts, readability, suggestions)
    /\ pc' = "done"
    /\ UNCHANGED <<payload, raw_text, target_keyword, related, meta_title,
                   meta_desc, text, words, sentences, stats, readability,
                   heading_counts, kw, kw_flags, suggestions>>

Next ==
    \/ ReadPayload
    \/ NormalizeText
    \/ TokenizeWords
    \/ SplitSentences
    \/ ComputeReadability
    \/ ExtractHeadings
    \/ KeywordMetrics
    \/ MakeSuggestions
    \/ Return

(***************************************************************************)
(* Requests.  A payload is a dict: a function from the field names it      *)
(* holds to values; a field may be absent.                                 *)
(***************************************************************************)
Fields == {"content", "target_keyword", "related_keywords", "meta_title",
           "meta_description"}

\* a field the payload does not hold (used only to build payloads)
Absent == [kind |-> "absent", s |-> <<>>, n |-> 0]

MkPayload(c, t, r, mt, md) ==
    LET all == [content |-> c, target_keyword |-> t, related_keywords |-> r,
                meta_title |-> mt, meta_description |-> md]
    IN  [k \in {f \in Fields : all[f].kind # "absent"} |-> all[k]]

\* c repeated n times
Rep(c, n) == [i \in 1..n |-> c]

\* all sequences of at most n elements of V
SeqsUpTo(V, n) == UNION {[1..k -> V] : k \in 0..n}

InitLocals ==
    /\ pc = "start"
    /\ raw_text = Unset /\ target_keyword = Unset /\ related = Unset
    /\ meta_title = Unset /\ meta_desc = Unset /\ text = Unset
    /\ words = Unset /\ sentences = Unset /\ stats = Unset
    /\ readability = Unset /\ heading_counts = Unset /\ kw = Unset
    /\ kw_flags = Unset /\ suggestions = Unset /\ result = Unset

\* ---- requests of the main specification ----
MaxWords == 2

\* "seo", "a'a", "Tips."
Vocabulary == {<<115, 101, 111>>, <<97, 39, 97>>, <<84, 105, 112, 115, 46>>}

\* up to MaxWords words of the vocabulary, separated by one space
Contents == {Join(ws) : ws \in SeqsUpTo(Vocabulary, MaxWords)}

ContentOptions == {Absent, PyNone} \cup {PyStr(c) : c \in Contents}

\* absent, null, "", "seo", "a", " Tips "
TargetOptions ==
    {Absent, PyNone, PyStr(<<>>), PyStr(<<115, 101, 111>>), PyStr(<<97>>),
     PyStr(<<32, 84, 105, 112, 115, 32>>)}

\* absent, null, "seo, a'a,"
RelatedOptions ==
    {Absent, PyNone, PyStr(<<115, 101, 111, 44, 32, 97, 39, 97, 44>>)}

\* absent, null, "Seo tips"
TitleOptions ==
    {Absent, PyNone, PyStr(<<83, 101, 111, 32, 116, 105, 112, 115>>)}

\* absent, null, "a"
DescriptionOptions == {Absent, PyNone, PyStr(<<97>>)}

\* requests whose fields are strings, null or absent
TypedPayloads ==
    {MkPayload(c, t, r, mt, md) :
        c \in ContentOptions, t \in TargetOptions, r \in RelatedOptions,
        mt \in TitleOptions, md \in DescriptionOptions}

\* requests with a field of the wrong type: one field is the integer 0 or 5
IllTypedPayloads ==
    {[f \in Fields |-> IF f = g THEN PyInt(v) ELSE PyStr(<<115, 101, 111>>)] :
        g \in Fields, v \in {0, 5}}

Init == InitLocals /\ payload \in TypedPayloads \cup IllTypedPayloads

Spec == Init /\ [][Next]_vars

(***************************************************************************)
(* Properties of analyze (specification Spec)                              *)
(***************************************************************************)
\* every field the payload holds is a string or null
WellTyped(p) == \A f \in DOMAIN p : p[f].kind \in {"str", "null"}

\* the field with null and absent replaced by the empty string
Filled(p, f) == IF f \in DOMAIN p /\ p[f].kind = "str" THEN p[f].s ELSE <<>>

AnalyzeOfFilled(p, upAvg, upScore, upDensity) ==
    analyze(Filled(p, "content"), Filled(p, "target_keyword"),
            Filled(p, "related_keywords"), Filled(p, "meta_title"),
            Filled(p, "meta_description"), upAvg, upScore, upDensity)

\* the step that comes next finds strings where it needs them
NextStepDoesNotRaise ==
    /\ pc = "read" => raw_text.kind = "str"
    /\ pc = "headings" => target_keyword.kind = "str" /\ related.kind = "str"
    /\ pc = "keywords" => meta_title.kind = "str" /\ meta_desc.kind = "str"

C8_NoErrorAndSameResult ==
    WellTyped(payload) =>
        /\ pc # "raised"
        /\ NextStepDoesNotRaise
        /\ (pc = "done" =>
               \E upAvg \in BOOLEAN, upScore \in BOOLEAN, upDensity \in BOOLEAN :
                   result = AnalyzeOfFilled(payload, upAvg, upScore, upDensity))

\* C8: for a payload whose fields are strings, null or absent, analyze runs to
\* its return without raising, the result is the result for the payload with
\* null and absent fields replaced by "", and no step changes the payload.
C8_AnalyzeTotalOnNullableFields ==
    [](C8_NoErrorAndSameResult) /\ [][payload' = payload]_vars

\* an analysis has returned for a payload with a nonempty content, a null
\* target_keyword and no meta_title
C8_Witness ==
    /\ pc = "done"
    /\ "content" \in DOMAIN payload /\ payload["content"].kind = "str"
    /\ result.stats.word_count > 0
    /\ "target_keyword" \in DOMAIN payload /\ payload["target_keyword"] = PyNone
    /\ "meta_title" \notin DOMAIN payload

\* C9 (as claimed): target_count never exceeds the word count, so
\* target_density_percent lies between 0 and 100.
C9_TargetCountWithinWordCount ==
    pc = "done" =>
        /\ result.keywords.target_count <= result.stats.word_count
        /\ result.keywords.target_density_percent \in 0..10000

Occurs(msg, sugg) == \E i \in 1..Len(sugg) : sugg[i] = msg

\* C10: when the target keyword is nonempty and occurs nowhere in the content,
\* has_target is false and density_low true, the "Include your target keyword"
\* suggestion is there and the "density looks low" suggestion is the one right
\* after it, with no "density looks high" suggestion; in every analysis the
\* "Include" suggestion is directly followed by "density looks low".
C10_MissingTargetIsLowDensity ==
    pc \in {"suggested", "done"} =>
        /\ (kw.target_keyword # <<>> /\ kw.target_count = 0) =>
              /\ ~kw_flags.has_target
              /\ kw_flags.density_low
              /\ ~kw_flags.density_high
              /\ Occurs(MsgIncludeTarget, suggestions)
              /\ ~Occurs(MsgDensityHigh, suggestions)
        /\ \A i \in 1..Len(suggestions) :
              suggestions[i] = MsgIncludeTarget =>
                  i < Len(suggestions) /\ suggestions[i + 1] = MsgDensityLow

\* an analysis of a content with words in which the nonempty target is missing
C10_Witness ==
    /\ pc = "done"
    /\ result.keywords.target_keyword # <<>>
    /\ result.keywords.target_count = 0
    /\ result.stats.word_count > 0
    /\ Occurs(MsgIncludeTarget, result.suggestions)

(***************************************************************************)
(* normalize_text on every short string (specification SpecNormalize)      *)
(***************************************************************************)
MaxNormLen == 4

\* space, newline, no-break space, the three smart quotes, "a"
NormAlphabet == {32, 10, 160, 8217, 8220, 8221, 97}

InitNormalize ==
    /\ InitLocals
    /\ payload \in {MkPayload(PyStr(c), Absent, Absent, Absent, Absent) :
                       c \in SeqsUpTo(NormAlphabet, MaxNormLen)}

SpecNormalize == InitNormalize /\ [][Next]_vars

\* C6: normalize_text is idempotent; its result has no leading or trailing
\* whitespace and no two adjacent whitespace characters, and "" maps to "".
C6_NormalizeIdempotent ==
    pc \notin {"start", "read", "raised"} =>
        /\ normalize_text(text) = text
        /\ text # <<>> => ~IsSpace(text[1]) /\ ~IsSpace(text[Len(text)])
        /\ \A i \in 1..(Len(text) - 1) : ~(IsSpace(text[i]) /\ IsSpace(text[i + 1]))
        /\ raw_text.s = <<>> => text = <<>>

\* a text with a newline-space run and a smart quote has been normalized
C6_Witness ==
    /\ pc = "normalized"
    /\ \E i \in 1..(Len(raw_text.s) - 1) : raw_text.s[i] = 10 /\ raw_text.s[i + 1] = 32
    /\ \E i \in 1..Len(raw_text.s) : raw_text.s[i] \in {8217, 8220, 8221}
    /\ text # <<>>
    /\ text # raw_text.s

(***************************************************************************)
(* extract_headings (specification SpecHeadings)                           *)
(***************************************************************************)
MaxHeadLen == 3
MaxHashes == 7

\* '#', space, newline, '<', 'h', '1', 'x'
HeadAlphabet == {35, 32, 10, 60, 104, 49, 120}

\* "", "x", "<h1>", "<H2 a", "<h1x", "<h10>"
LineBodies ==
    {<<>>, <<120>>, <<60, 104, 49, 62>>, <<60, 72, 50, 32, 97>>,
     <<60, 104, 49, 120>>, <<60, 104, 49, 48, 62>>}

\* indent, a run of '#', a separator, a body
HeadingLines ==
    {ind \o Rep(35, k) \o sep \o body :
        ind \in {<<>>, <<32>>, <<9>>}, k \in 0..MaxHashes,
        sep \in {<<>>, <<32>>, <<32, 9>>}, body \in LineBodies}

\* "# x", "<h1>", "###### x", "#x"
SecondLines ==
    {<<35, 32, 120>>, <<60, 104, 49, 62>>,
     <<35, 35, 35, 35, 35, 35, 32, 120>>, <<35, 120>>}

\* "\n", "\r\n", "\r"
LineEnds == {<<10>>, <<13, 10>>, <<13>>}

HeadingContents ==
    SeqsUpTo(HeadAlphabet, MaxHeadLen)
    \cup HeadingLines
    \cup {l \o e \o m : l \in HeadingLines, e \in LineEnds, m \in SecondLines}

InitHeadings ==
    /\ InitLocals
    /\ payload \in {MkPayload(PyStr(c), Absent, Absent, Absent, Absent) :
                       c \in HeadingContents}

SpecHeadings == InitHeadings /\ [][Next]_vars

\* whitespace that does not end a line
InlineSpace(c) == IsSpace(c) /\ ~IsLineBreak(c)

\* a line starts at i
IsLineStart(s, i) == i = 1 \/ IsLineBreak(s[i - 1])

\* the line that starts at i is a markdown heading of level n: optional
\* whitespace, exactly n '#', at least one whitespace, a non-whitespace
MdHeadingAt(s, i, n) ==
    \E k \in i..Len(s) :
        /\ \A j \in i..(k - 1) : InlineSpace(s[j])
        /\ k + n <= Len(s)
        /\ \A j \in k..(k + n - 1) : s[j] = 35
        /\ InlineSpace(s[k + n])
        /\ \E e \in (k + n + 1)..Len(s) :
              /\ \A j \in (k + n)..(e - 1) : InlineSpace(s[j])
              /\ ~IsSpace(s[e])

MarkdownHeadings(s, n) ==
    Cardinality({i \in 1..Len(s) : IsLineStart(s, i) /\ MdHeadingAt(s, i, n)})

\* occurrences of the opening tag marker "<hN", in either case, that end the
\* tag name (no letter, digit or underscore follows)
TagHeadings(s, n) ==
    Cardinality({i \in 1..(Len(s) - 2) :
                    /\ s[i] = 60
                    /\ s[i + 1] \in {104, 72}
                    /\ s[i + 2] = 48 + n
                    /\ (i + 3 <= Len(s) => ~IsW(s[i + 3]))})

\* C7: extract_headings returns exactly the keys h1..h6, and the value of
\* each level is the number of markdown heading lines of that level plus the
\* number of "<hN" tag markers of that level (so a '#' run without whitespace
\* after it, or of more than six '#', counts for no level).
C7_HeadingCounts ==
    pc \in {"headings", "keywords", "suggested", "done"} =>
        /\ DOMAIN heading_counts = {"h1", "h2", "h3", "h4", "h5", "h6"}
        /\ \A n \in 1..6 :
              heading_counts[HeadingKeys[n]] =
                  MarkdownHeadings(raw_text.s, n) + TagHeadings(raw_text.s, n)

\* a text with a markdown h1 and an <h1 tag: the two sum
C7_Witness ==
    /\ pc = "headings"
    /\ MarkdownHeadings(raw_text.s, 1) = 1
    /\ TagHeadings(raw_text.s, 1) >= 1
    /\ heading_counts["h1"] >= 2

(***************************************************************************)
(* keyword_metrics (specification SpecKeywords)                            *)
(***************************************************************************)
MaxShort == 26
MaxTail == 3

\* the i-th two-letter token "aa", "ab", ... and three-letter token "xaa", ...
Tok2(i) == <<97 + (i \div 26), 97 + (i % 26)>>
Tok3(i) == <<120, 97 + (i \div 26), 97 + (i % 26)>>

\* m two-letter tokens, each written reps times in a row
ShortWords(m, reps) == [j \in 1..(m * reps) |-> Tok2((j - 1) \div reps)]

\* l three-letter tokens
LongWords(l) == [j \in 1..l |-> Tok3(j - 1)]

\* "cat", "category", "123", "dog"
TailVocabulary ==
    {<<99, 97, 116>>, <<99, 97, 116, 101, 103, 111, 114, 121>>,
     <<49, 50, 51>>, <<100, 111, 103>>}

\* many distinct tokens: short ones and long ones in either order, then
\* nothing, "cat" or "123 cat cat"
ManyTokenContents ==
    {Join(base \o tail) :
        base \in UNION {{ShortWords(m, reps) \o LongWords(l),
                         LongWords(l) \o ShortWords(m, reps)} :
                           m \in 0..MaxShort, reps \in {1, 2}, l \in {0, 1, 16}},
        tail \in {<<>>, <<<<99, 97, 116>>>>,
                  <<<<49, 50, 51>>, <<99, 97, 116>>, <<99, 97, 116>>>>}}

FewTokenContents == {Join(ws) : ws \in SeqsUpTo(TailVocabulary, MaxTail)}

\* absent, "cat", " Cat , cat dog,,123", "category,cat", ","
RelatedTermOptions ==
    {Absent, PyStr(<<99, 97, 116>>),
     PyStr(<<32, 67, 97, 116, 32, 44, 32, 99, 97, 116, 32, 100, 111, 103, 44, 44,
             49, 50, 51>>),
     PyStr(<<99, 97, 116, 101, 103, 111, 114, 121, 44, 99, 97, 116>>),
     PyStr(<<44>>)}

\* absent, "cat", "cat dog"
KeywordTargetOptions ==
    {Absent, PyStr(<<99, 97, 116>>), PyStr(<<99, 97, 116, 32, 100, 111, 103>>)}

InitKeywords ==
    /\ InitLocals
    /\ payload \in
          {MkPayload(PyStr(c), PyStr(<<99, 97, 116>>), PyStr(<<99, 97, 116>>),
                     Absent, Absent) : c \in ManyTokenContents}
          \cup {MkPayload(PyStr(c), t, r, Absent, Absent) :
                   c \in FewTokenContents, t \in KeywordTargetOptions,
                   r \in RelatedTermOptions}

SpecKeywords == InitKeywords /\ [][Next]_vars

\* the number of tokens equal to w
Occurrences(ws, w) == Cardinality({i \in 1..Len(ws) : ws[i] = w})

\* where w is first encountered
FirstIndex(ws, w) == CHOOSE i \in 1..Len(ws) : ws[i] = w /\ \A j \in 1..(i - 1) : ws[j] # w

\* v comes before w in the frequency ranking: more frequent, or as frequent
\* and encountered first
RanksBefore(ws, v, w) ==
    \/ Occurrences(ws, v) > Occurrences(ws, w)
    \/ Occurrences(ws, v) = Occurrences(ws, w) /\ FirstIndex(ws, v) < FirstIndex(ws, w)

\* the place of w among all distinct tokens ranked by frequency
FrequencyRank(ws, w) == 1 + Cardinality({v \in Range(ws) : RanksBefore(ws, v, w)})

\* length > 2 and not purely numeric
PassesFilter(w) == Len(w) > 2 /\ \E i \in 1..Len(w) : ~IsDigit(w[i])

\* terms is a list of (token, count) pairs of tokens of `candidates`, in
\* ranking order, that leaves a candidate out only behind 15 reported ones
IsTopFifteenOf(terms, ws, candidates) ==
    /\ Len(terms) <= 15
    /\ \A i \in 1..Len(terms) :
          /\ terms[i][1] \in candidates
          /\ terms[i][2] = Occurrences(ws, terms[i][1])
    /\ \A i \in 1..(Len(terms) - 1) :
          /\ RanksBefore(ws, terms[i][1], terms[i + 1][1])
          /\ terms[i][2] >= terms[i + 1][2]
    /\ \A w \in candidates :
          (\A i \in 1..Len(terms) : terms[i][1] # w) =>
              Len(terms) = 15 /\ RanksBefore(ws, terms[15][1], w)

\* C4 (as claimed): top_terms is the first 15 of the list of all distinct tokens
\* ranked by frequency, filtered to length > 2 and not purely numeric, then cut
\* to 25: every token that passes the filter is a candidate.
C4_TopTermsFilterThenCut ==
    pc \in {"keywords", "suggested", "done"} =>
        IsTopFifteenOf(kw.top_terms, words, {w \in Range(words) : PassesFilter(w)})

\* C4 (amended): the cut to 25 comes first.  top_terms is the first 15 of the
\* list of the 25 most frequent distinct tokens (ties in first-encountered
\* order), filtered to length > 2 and not purely numeric; it has at most 15
\* entries, with non-increasing counts.
C4_TopTermsCutThenFilter ==
    pc \in {"keywords", "suggested", "done"} =>
        IsTopFifteenOf(kw.top_terms, words,
                       {w \in Range(words) :
                           PassesFilter(w) /\ FrequencyRank(words, w) <= 25})

\* a token that passes the filter is outside the 25 most frequent ones and is
\* not reported although fewer than 15 terms are
C4_Witness ==
    /\ pc = "keywords"
    /\ Len(kw.top_terms) < 15
    /\ \E w \in Range(words) :
          /\ PassesFilter(w)
          /\ FrequencyRank(words, w) > 25
          /\ \A i \in 1..Len(kw.top_terms) : kw.top_terms[i][1] # w

\* the maximal comma-free pieces of rel, trimmed and lowercased, empties dropped
RelatedTerms(rel) ==
    {lower(strip(Slice(rel, i, j))) :
        <<i, j>> \in {p \in (1..(Len(rel) + 1)) \X (0..Len(rel)) :
                        /\ p[2] >= p[1] - 1
                        /\ (p[1] = 1 \/ rel[p[1] - 1] = 44)
                        /\ (p[2] = Len(rel) \/ rel[p[2] + 1] = 44)
                        /\ \A k \in p[1]..p[2] : rel[k] # 44}} \ {<<>>}

\* C5: related_counts maps each related term (split on comma, trimmed,
\* lowercased, empties dropped) to the number of tokens equal to it; a token
\* that only contains the term is not counted, and a term of several words
\* gets 0.
C5_RelatedCountsExactToken ==
    pc \in {"keywords", "suggested", "done"} =>
        /\ DOMAIN kw.related_counts = RelatedTerms(related.s)
        /\ Range(kw.related_keywords) = RelatedTerms(related.s)
        /\ \A r \in DOMAIN kw.related_counts :
              /\ kw.related_counts[r] = Occurrences(words, r)
              /\ (\E k \in 1..Len(r) : IsSpace(r[k])) => kw.related_counts[r] = 0

\* "cat" is counted twice in a content that also holds "category", next to a
\* related term of two words
C5_Witness ==
    /\ pc = "keywords"
    /\ <<99, 97, 116>> \in DOMAIN kw.related_counts
    /\ kw.related_counts[<<99, 97, 116>>] = 2
    /\ \E i \in 1..Len(words) : words[i] = <<99, 97, 116, 101, 103, 111, 114, 121>>
    /\ <<99, 97, 116, 32, 100, 111, 103>> \in DOMAIN kw.related_counts

(***************************************************************************)
(* make_suggestions called on its own (specification SpecSuggest): its     *)
(* arguments are drawn directly, so that every rule and every combination  *)
(* of the keyword flags is exercised.                                      *)
(***************************************************************************)
MaxPad == 1

\* n words "w" / n sentences "s"
WordList(n) == Rep(<<119>>, n)
SentenceList(n) == Rep(<<115>>, n)

HeadingCounts(h1, h2, h3) ==
    [k \in {"h1", "h2", "h3", "h4", "h5", "h6"} |->
        CASE k = "h1" -> h1 [] k = "h2" -> h2 [] k = "h3" -> h3 [] OTHER -> 0]

\* a kw as keyword_metrics shapes it; make_suggestions reads target_keyword only
KeywordOf(target) ==
    [target_keyword |-> target, target_count |-> 0, target_density_percent |-> 0,
     related_keywords |-> <<>>, related_counts |-> <<>>, top_terms |-> <<>>]

FlagsOf(has, low, high) ==
    [has_target |-> has, density_low |-> low, density_high |-> high]

\* the target "seo" (lowercase and trimmed, as keyword_metrics delivers it)
\* with every combination of flags, or no target and no flag
KeywordInputs ==
    {<<KeywordOf(<<>>), FlagsOf(FALSE, FALSE, FALSE)>>}
    \cup {<<KeywordOf(<<115, 101, 111>>), FlagsOf(h, l, g)>> :
             h \in BOOLEAN, l \in BOOLEAN, g \in BOOLEAN}

\* lead spaces, then n characters that start with core and go on with "x",
\* then trail spaces
MetaText(lead, core, n, trail) ==
    Rep(32, lead) \o FirstN(core \o Rep(120, n), n) \o Rep(32, trail)

\* "", "SEO " and "seo "
NoCore == <<>>
UpperCore == <<83, 69, 79, 32>>
LowerCore == <<115, 101, 111, 32>>

MetaTitles ==
    {MetaText(lead, core, n, trail) :
        lead \in 0..MaxPad, core \in {NoCore, UpperCore},
        n \in {0, 1, 34, 35, 64, 65, 66}, trail \in 0..MaxPad}

MetaDescriptions ==
    {MetaText(0, core, n, trail) :
        core \in {NoCore, LowerCore}, n \in {0, 89, 90, 170, 171},
        trail \in 0..MaxPad}

\* n times "w ": one paragraph of n words; the raw texts below are "", such a
\* paragraph, and "w w", a blank line, a paragraph of 111 words
ParagraphOf(n) == [i \in 1..(2 * n) |-> IF i % 2 = 1 THEN 119 ELSE 32]

\* every rule against a few metadata values
RuleGrid ==
    [wc : {299, 300, 700, 2001}, sc : {0, 13, 91},
     h1 : {0, 1, 2}, h23 : {0, 1}, kwi : KeywordInputs,
     title : {<<>>, MetaText(0, NoCore, 34, 0), MetaText(0, UpperCore, 66, 0)},
     desc : {<<>>, MetaText(0, LowerCore, 89, 0), MetaText(0, NoCore, 171, 0)},
     raw : {<<>>, <<119, 32, 119, 10, 32, 10>> \o ParagraphOf(111)}]

\* every metadata value against one content
MetaGrid ==
    [wc : {300}, sc : {1}, h1 : {1}, h23 : {1},
     kwi : {<<KeywordOf(<<>>), FlagsOf(FALSE, FALSE, FALSE)>>,
            <<KeywordOf(<<115, 101, 111>>), FlagsOf(TRUE, FALSE, FALSE)>>},
     title : MetaTitles, desc : MetaDescriptions, raw : {<<>>, ParagraphOf(110)}]

InitSuggest ==
    \E a \in RuleGrid \cup MetaGrid :
        /\ pc = "keywords"
        /\ raw_text = PyStr(a.raw)
        /\ target_keyword = PyStr(a.kwi[1].target_keyword)
        /\ related = PyStr(<<>>)
        /\ meta_title = PyStr(a.title)
        /\ meta_desc = PyStr(a.desc)
        /\ payload = MkPayload(raw_text, target_keyword, Absent, meta_title, meta_desc)
        /\ text = Unset
        /\ words = WordList(a.wc)
        /\ sentences = SentenceList(a.sc)
        /\ stats = Unset
        /\ readability = Unset
        /\ heading_counts = HeadingCounts(a.h1, a.h23, a.h23)
        /\ kw = a.kwi[1]
        /\ kw_flags = a.kwi[2]
        /\ suggestions = Unset
        /\ result = Unset

NextSuggest == MakeSuggestions

SpecSuggest == InitSuggest /\ [][NextSuggest]_vars

\* the rule a message belongs to (1 word count, 2 sentence length, 3 H1, 4 H2,
\* 5 H3, 6 keyword block, 7 meta title, 8 meta description, 9 long paragraphs);
\* 0 for a string that is no message of the engine
RuleOf(msg) ==
    CASE msg \in {MsgAddDepth, MsgTrim} -> 1
      [] msg = MsgShortenSentences -> 2
      [] msg \in {MsgAddH1, MsgOneH1} -> 3
      [] msg = MsgAddH2 -> 4
      [] msg = MsgAddH3 -> 5
      [] msg \in {MsgIncludeTarget, MsgDensityLow, MsgDensityHigh, MsgAddTarget} -> 6
      [] msg \in {MsgAddTitle, MsgTitleShort, MsgTitleLong, MsgTitleKeyword} -> 7
      [] msg \in {MsgAddDesc, MsgDescShort, MsgDescLong, MsgDescKeyword} -> 8
      [] msg = MsgLongParagraphs -> 9
      [] OTHER -> 0

\* the place of a message inside its rule
PlaceInRule(msg) ==
    CASE msg \in {MsgIncludeTarget, MsgTitleShort, MsgDescShort} -> 1
      [] msg \in {MsgDensityLow, MsgTitleLong, MsgDescLong} -> 2
      [] msg \in {MsgDensityHigh, MsgTitleKeyword, MsgDescKeyword} -> 3
      [] OTHER -> 0

\* C1: the suggestions follow the fixed rule order: the rule numbers of the
\* emitted messages never decrease; inside the keyword block the order is
\* include-target, density-low, density-high, inside the meta title and meta
\* description blocks short, long, include-keyword; no message occurs twice.
C1_SuggestionsInRuleOrder ==
    pc = "suggested" =>
        /\ \A i \in 1..Len(suggestions) : RuleOf(suggestions[i]) \in 1..9
        /\ \A i \in 1..(Len(suggestions) - 1) :
              /\ RuleOf(suggestions[i]) <= RuleOf(suggestions[i + 1])
              /\ RuleOf(suggestions[i]) = RuleOf(suggestions[i + 1]) =>
                    PlaceInRule(suggestions[i]) < PlaceInRule(suggestions[i + 1])
        /\ \A i \in 1..Len(suggestions) : \A j \in 1..Len(suggestions) :
              suggestions[i] = suggestions[j] => i = j

\* all three keyword messages, two title and two description messages and
\* the first and last rule have fired in one list
C1_Witness ==
    /\ pc = "suggested"
    /\ Occurs(MsgTrim, suggestions) /\ Occurs(MsgShortenSentences, suggestions)
    /\ Occurs(MsgIncludeTarget, suggestions) /\ Occurs(MsgDensityLow, suggestions)
    /\ Occurs(MsgDensityHigh, suggestions)
    /\ Occurs(MsgTitleShort, suggestions) /\ Occurs(MsgTitleKeyword, suggestions)
    /\ Occurs(MsgDescLong, suggestions) /\ Occurs(MsgDescKeyword, suggestions)
    /\ Occurs(MsgLongParagraphs, suggestions)

\* C2 (as claimed): the long-title warning fires exactly when meta_title has
\* more than 65 characters: not at 65, and at 66.
C2_LongTitleByRawLength ==
    pc = "suggested" =>
        /\ Len(meta_title.s) = 65 => ~Occurs(MsgTitleLong, suggestions)
        /\ Len(meta_title.s) = 66 => Occurs(MsgTitleLong, suggestions)
        /\ Occurs(MsgTitleLong, suggestions) <=> Len(meta_title.s) > 65

\* C2 (amended): the length that counts is that of meta_title with leading and
\* trailing whitespace removed: no warning at 65 such characters, a warning
\* at 66, and a warning exactly when there are more than 65.
C2_LongTitleByStrippedLength ==
    pc = "suggested" =>
        /\ Len(strip(meta_title.s)) = 65 => ~Occurs(MsgTitleLong, suggestions)
        /\ Len(strip(meta_title.s)) = 66 => Occurs(MsgTitleLong, suggestions)
        /\ Occurs(MsgTitleLong, suggestions) <=> Len(strip(meta_title.s)) > 65

\* a title of 66 characters of which one is a trailing space: no warning
C2_Witness ==
    /\ pc = "suggested"
    /\ Len(meta_title.s) = 66
    /\ Len(strip(meta_title.s)) = 65
    /\ ~Occurs(MsgTitleLong, suggestions)

\* the target keyword is contained in the title, ignoring case
TargetInTitle(target, title) == Contains(lower(title), lower(target))

\* C3 (as claimed): the "include the target keyword in the meta title"
\* suggestion is emitted whenever the target keyword is nonempty and not
\* contained case-insensitively in the meta title, and never otherwise.
C3_TitleKeywordForEveryTitle ==
    pc = "suggested" =>
        (Occurs(MsgTitleKeyword, suggestions) <=>
            /\ kw.target_keyword # <<>>
            /\ ~TargetInTitle(kw.target_keyword, meta_title.s))

\* C3 (amended): for a target keyword as keyword_metrics delivers it
\* (lowercase), the suggestion is emitted exactly when the meta title is
\* nonempty after trimming, the target keyword is nonempty and it is not
\* contained case-insensitively in the trimmed title; an empty title gets
\* "Add a meta title" only.
C3_TitleKeywordForNonemptyTitle ==
    pc = "suggested" /\ kw.target_keyword = lower(kw.target_keyword) =>
        /\ Occurs(MsgTitleKeyword, suggestions) <=>
              /\ strip(meta_title.s) # <<>>
              /\ kw.target_keyword # <<>>
              /\ ~TargetInTitle(kw.target_keyword, strip(meta_title.s))
        /\ strip(meta_title.s) = <<>> =>
              Occurs(MsgAddTitle, suggestions) /\ ~Occurs(MsgTitleKeyword, suggestions)

\* a title that holds "SEO" in capitals and the target "seo": no suggestion,
\* the match ignores case
C3_Witness ==
    /\ pc = "suggested"
    /\ kw.target_keyword = <<115, 101, 111>>
    /\ Contains(meta_title.s, <<83, 69, 79>>)
    /\ ~Occurs(MsgTitleKeyword, suggestions)
    /\ Occurs(MsgTitleLong, suggestions)

====
